---- MODULE Spec2Model ----
(***************************************************************************)
(* State-machine model of drivers/virt/vmgenid.c: the probe path           *)
(* (vmgenid_add, vmgenid_add_acpi, setup_vmgenid_state), the notification  *)
(* handler (vmgenid_notify), the host that owns the identifier region and  *)
(* may rewrite it at any instant, and the driver core unbinding the        *)
(* device.  The 16-byte identifier is modelled as Chunks pieces that a     *)
(* memcpy reads one after the other, so that a host rewrite can land in    *)
(* the middle of a read.                                                   *)
(***************************************************************************)
EXTENDS Integers, FiniteSets, Sequences, TLC

\* ---- bounds of the model ----
\* number of separately loaded pieces of the VMGENID_SIZE-byte region
Chunks == 2
\* number of host rewrites of the region explored
MaxRewrites == 2
\* number of ACPI notifications delivered to the handler explored
MaxSignals == 3
\* bits in one half of a 64-bit integer of the address arithmetic
HalfBits == 2

\* the values one piece of the identifier can hold
ByteVals == {0, 1}
Ids == [1..Chunks -> ByteVals]
ZeroId == [i \in 1..Chunks |-> 0]

\* errno values returned by the probe path
Errnos == {"0", "-ENOMEM", "-ENODEV", "-EINVAL", "-ENXIO"}

\* shapes of the object acpi_evaluate_object can hand back for ADDR
NoObj == [null |-> TRUE, type |-> "none", count |-> 0, e0 |-> "none", e1 |-> "none"]
AcpiObjs ==
    {NoObj} \cup
    [null : {FALSE}, type : {"package", "integer"}, count : {1, 2, 3},
     e0 : {"integer", "buffer"}, e1 : {"integer", "buffer"}]

VARIABLES
    \* --- probe path (vmgenid_add / vmgenid_add_acpi / setup_vmgenid_state) ---
    apc,          \* position of the probe
    ret,          \* value vmgenid_add_acpi / vmgenid_add returns
    err,          \* which attachment step failed ("none" if none)
    obj,          \* parsed.pointer
    stateMem,     \* the devm_kmalloc'ed vmgenid_state: "none", "live", "freed"
    mapping,      \* result of devm_memremap: "none", "mapped", "ERR", "released"
    nMap,         \* number of devm_memremap calls
    next_id,      \* state->next_id: "unset", "region", "ERR"
    this_id,      \* state->this_id
    si,           \* index of the next chunk setup's memcpy copies
    driver_data,  \* dev->driver_data: "null" or "state"
    handler,      \* vmgenid_acpi_handler installed for ACPI_DEVICE_NOTIFY
    nInstall,     \* number of acpi_install_notify_handler calls
    logs,         \* diagnostic messages emitted
    \* --- host ---
    region,       \* live contents of the identifier region
    nRewrites,    \* host rewrites that changed the region's value
    \* --- vmgenid_notify ---
    npc,          \* position of the handler: "idle" when none is in progress
    ni,           \* index of the next chunk the handler's memcpy copies
    old_id,       \* local old_id
    nSignals,     \* notifications delivered to the handler
    \* --- collaborators' observations ---
    nDevRand,     \* add_device_randomness calls
    nVmfork,      \* add_vmfork_randomness calls
    nUevent,      \* kobject_uevent_env calls
    nChanged,     \* handlings that ran to the end of the changed path
    lastOutcome,  \* outcome of the last completed handling
    lastInject,   \* kind and bytes of the most recent entropy injection
    oops,         \* the handler dereferenced a NULL driver_data
    lateCalls,    \* handler invocations after the device was removed
    \* --- history, per handling and per rewrite ---
    rCall,        \* region's value when setup_vmgenid_state began to copy it
    chgSinceSetup,\* host rewrote the region since setup began to copy it
    hDiff,        \* region differed from this_id when the handling began
    hOverlap,     \* host rewrote the region during the handling
    hVmfork,      \* add_vmfork_randomness calls of the handling
    hUevent,      \* uevents of the handling
    torn,         \* a rewrite landed between two chunk reads of a handler snapshot
    needR, needU, \* a rewrite has not been followed by a reseed / a uevent yet
    owedR, owedU, \* same, for rewrites that preceded the last delivered signal
    quietRuns,    \* handlings completed since the last rewrite, saturating at 2
    hSnap,        \* the bytes the handling loaded from the region
    hPrior,       \* this_id when the handling began
    hReads,       \* loads from the region made by the handling
    \* --- address arithmetic of vmgenid_add_acpi, on its own ---
    aL, aH,       \* package.elements[0] and [1].integer.value
    aPhys,        \* phys_addr
    aDone         \* phys_addr has been computed

probeVars == <<apc, ret, err, obj, stateMem, mapping, nMap, next_id, si,
               driver_data, handler, nInstall, logs>>
hostVars == <<region, nRewrites>>
notifyVars == <<npc, ni, old_id, nSignals>>
obsVars == <<nDevRand, nVmfork, nUevent, nChanged, lastOutcome, lastInject,
             oops, lateCalls>>
histVars == <<rCall, chgSinceSetup, hDiff, hOverlap, hVmfork, hUevent, torn,
              needR, needU, owedR, owedU, quietRuns>>
snapVars == <<hSnap, hPrior, hReads>>
addrVars == <<aL, aH, aPhys, aDone>>
vars == <<probeVars, this_id, hostVars, notifyVars, obsVars, histVars,
          snapVars, addrVars>>

\* a 64-bit integer as its two halves, each of HalfBits bits
HalfMod == 2 ^ HalfBits
Words == [hi : 0..(HalfMod - 1), lo : 0..(HalfMod - 1)]
ZeroWord == [hi |-> 0, lo |-> 0]

NoInject == [kind |-> "none", id |-> ZeroId]

ProbeInit ==
    /\ apc = "start" /\ ret = "0" /\ err = "none" /\ obj = NoObj
    /\ stateMem = "none" /\ mapping = "none" /\ nMap = 0
    /\ next_id = "unset" /\ this_id = ZeroId /\ si = 1
    /\ driver_data = "null" /\ handler = FALSE /\ nInstall = 0 /\ logs = {}
    /\ region \in Ids /\ nRewrites = 0
    /\ npc = "idle" /\ ni = 1 /\ old_id = ZeroId /\ nSignals = 0
    /\ nDevRand = 0 /\ nVmfork = 0 /\ nUevent = 0 /\ nChanged = 0
    /\ lastOutcome = "none" /\ lastInject = NoInject
    /\ oops = FALSE /\ lateCalls = 0
    /\ rCall = ZeroId /\ chgSinceSetup = FALSE
    /\ hDiff = FALSE /\ hOverlap = FALSE /\ hVmfork = 0 /\ hUevent = 0
    /\ torn = FALSE /\ needR = FALSE /\ needU = FALSE
    /\ owedR = FALSE /\ owedU = FALSE /\ quietRuns = 0
    /\ hSnap = ZeroId /\ hPrior = ZeroId /\ hReads = 0

Init ==
    /\ ProbeInit
    /\ aL = ZeroWord /\ aH = ZeroWord /\ aPhys = ZeroWord /\ aDone = FALSE

\* ---------------------------------------------------------------------
\* helpers: fragments of the C code
\* ---------------------------------------------------------------------

\* one load/store pair of memcpy(dst, src, VMGENID_SIZE)
MemcpyChunk_nostore(dst, src, i) == dst
MemcpyChunk_first(dst, src, i) == [dst EXCEPT ![1] = src[1]]
MemcpyChunk(dst, src, i) == [dst EXCEPT ![i] = src[i]]

\* !memcmp(a, b, VMGENID_SIZE)
\* (a variant that stops after the first piece)
IdsEqual_first(a, b) == a[1] = b[1]
IdsEqual_never(a, b) == FALSE
IdsEqual_always(a, b) == TRUE
IdsEqual(a, b) == a = b

\* IS_ERR(next_id)
IsErr_never(p) == FALSE
IsErr(p) == p = "ERR"

\* the descriptor test of vmgenid_add_acpi
IsMalformed(o) ==
    \/ o.null
    \/ o.type # "package"
    \/ o.count # 2
    \/ o.e0 # "integer"
    \/ o.e1 # "integer"

\* ---------------------------------------------------------------------
\* probe: vmgenid_add
\* ---------------------------------------------------------------------

\* state = devm_kmalloc(...); if (!state) return -ENOMEM;
\* the allocation is not zeroed: this_id starts with arbitrary contents
Add_Alloc ==
    /\ apc = "start"
    /\ \E ok \in BOOLEAN :
         IF ok
         THEN /\ stateMem' = "live"
              /\ \E g \in Ids : this_id' = g
              /\ apc' = "eval"
              /\ UNCHANGED <<ret, err>>
         ELSE /\ ret' = "-ENOMEM" /\ err' = "ENOMEM"
              /\ apc' = "failed"
              /\ UNCHANGED <<stateMem, this_id>>
    /\ UNCHANGED <<obj, mapping, nMap, next_id, si, driver_data, handler,
                   nInstall, logs, hostVars, notifyVars, obsVars, histVars>>
    /\ UNCHANGED addrVars
    /\ UNCHANGED snapVars

\* status = acpi_evaluate_object(device->handle, "ADDR", NULL, &parsed);
\* on failure ACPI_EXCEPTION(...) and return -ENODEV
Acpi_Evaluate ==
    /\ apc = "eval"
    /\ \E ok \in BOOLEAN :
         IF ok
         THEN /\ \E o \in AcpiObjs : obj' = o
              /\ apc' = "check"
              /\ UNCHANGED <<ret, err, logs>>
         ELSE /\ ret' = "-ENODEV" /\ err' = "Resolution"
              /\ logs' = logs \cup {"ACPI_EXCEPTION"}
              /\ apc' = "ret"
              /\ UNCHANGED obj
    /\ UNCHANGED <<stateMem, mapping, nMap, next_id, this_id, si, driver_data,
                   handler, nInstall, hostVars, notifyVars, obsVars, histVars>>
    /\ UNCHANGED addrVars
    /\ UNCHANGED snapVars

\* the shape test on parsed.pointer: ret = -EINVAL; goto out
Acpi_CheckObj ==
    /\ apc = "check"
    /\ IF IsMalformed(obj)
       THEN /\ ret' = "-EINVAL" /\ err' = "Malformed" /\ apc' = "out"
       ELSE /\ apc' = "remap" /\ UNCHANGED <<ret, err>>
    /\ UNCHANGED <<obj, stateMem, mapping, nMap, next_id, this_id, si,
                   driver_data, handler, nInstall, logs, hostVars, notifyVars,
                   obsVars, histVars>>
    /\ UNCHANGED addrVars
    /\ UNCHANGED snapVars

\* virt_addr = devm_memremap(&device->dev, phys_addr, VMGENID_SIZE, MEMREMAP_WB)
\* followed by the call of setup_vmgenid_state(state, virt_addr)
Acpi_Memremap ==
    /\ apc = "remap"
    /\ nMap' = nMap + 1
    /\ \E ok \in BOOLEAN :
         mapping' = IF ok THEN "mapped" ELSE "ERR"
    /\ apc' = "setup"
    /\ UNCHANGED <<ret, err, obj, stateMem, next_id, this_id, si, driver_data,
                   handler, nInstall, logs, hostVars, notifyVars, obsVars,
                   histVars>>
    /\ UNCHANGED addrVars
    /\ UNCHANGED snapVars

\* setup_vmgenid_state: if (IS_ERR(next_id)) return PTR_ERR(next_id);
\*                      state->next_id = next_id;
Setup_Check ==
    /\ apc = "setup"
    /\ IF IsErr(mapping)
       THEN /\ ret' = "-ENXIO" /\ err' = "Mapping" /\ apc' = "out"
            /\ UNCHANGED next_id
       ELSE /\ next_id' = (IF mapping = "mapped" THEN "region" ELSE "ERR")
            /\ apc' = "copy"
            /\ UNCHANGED <<ret, err>>
    /\ si' = 1
    /\ UNCHANGED <<obj, stateMem, mapping, nMap, this_id, driver_data, handler,
                   nInstall, logs, hostVars, notifyVars, obsVars, histVars>>
    /\ UNCHANGED addrVars
    /\ UNCHANGED snapVars

\* setup_vmgenid_state: memcpy(state->this_id, state->next_id, ...), one chunk
Setup_Copy ==
    /\ apc = "copy"
    /\ this_id' = MemcpyChunk(this_id, region, si)
    /\ IF si = Chunks
       THEN si' = 1 /\ apc' = "seed"
       ELSE si' = si + 1 /\ apc' = "copy"
    /\ rCall' = (IF si = 1 THEN region ELSE rCall)
    /\ chgSinceSetup' = (IF si = 1 THEN FALSE ELSE chgSinceSetup)
    /\ UNCHANGED <<ret, err, obj, stateMem, mapping, nMap, next_id,
                   driver_data, handler, nInstall, logs, hostVars, notifyVars,
                   obsVars, hDiff, hOverlap, hVmfork, hUevent, torn, needR,
                   needU, owedR, owedU, quietRuns>>
    /\ UNCHANGED addrVars
    /\ UNCHANGED snapVars

\* the bytes setup_vmgenid_state hands to add_device_randomness
BootSeedArg_live == region
BootSeedArg == this_id

\* setup_vmgenid_state: add_device_randomness(state->this_id, ...); return 0;
Setup_Seed ==
    /\ apc = "seed"
    /\ nDevRand' = nDevRand + 1
    /\ lastInject' = [kind |-> "device", id |-> BootSeedArg]
    /\ apc' = "install"
    /\ UNCHANGED <<ret, err, obj, stateMem, mapping, nMap, next_id, this_id,
                   si, driver_data, handler, nInstall, logs, hostVars,
                   notifyVars, nVmfork, nUevent, nChanged, lastOutcome, oops,
                   lateCalls, histVars>>
    /\ UNCHANGED addrVars
    /\ UNCHANGED snapVars

\* dev->driver_data after a failed acpi_install_notify_handler
DrvDataOnInstallFail_kept == "state"
DrvDataOnInstallFail == "null"

\* what a failed acpi_install_notify_handler logs: dev_err(dev, "Failed ...")
InstallFailLog_silent == {}
InstallFailLog == {"dev_err"}

\* dev->driver_data = state; status = acpi_install_notify_handler(...);
\* on failure dev_err, ret = -ENODEV, dev->driver_data = NULL
Acpi_Install ==
    /\ apc = "install"
    /\ nInstall' = nInstall + 1
    /\ \E ok \in BOOLEAN :
         IF ok
         THEN /\ driver_data' = "state"
              /\ handler' = TRUE
              /\ UNCHANGED <<ret, err, logs>>
         ELSE /\ driver_data' = DrvDataOnInstallFail
              /\ ret' = "-ENODEV" /\ err' = "Registration"
              /\ logs' = logs \cup InstallFailLog
              /\ UNCHANGED handler
    /\ apc' = "out"
    /\ UNCHANGED <<obj, stateMem, mapping, nMap, next_id, this_id, si,
                   hostVars, notifyVars, obsVars, histVars>>
    /\ UNCHANGED addrVars
    /\ UNCHANGED snapVars

\* out: ACPI_FREE(parsed.pointer); return ret;
Acpi_Out ==
    /\ apc = "out"
    /\ obj' = NoObj
    /\ apc' = "ret"
    /\ UNCHANGED <<ret, err, stateMem, mapping, nMap, next_id, this_id, si,
                   driver_data, handler, nInstall, logs, hostVars, notifyVars,
                   obsVars, histVars>>
    /\ UNCHANGED addrVars
    /\ UNCHANGED snapVars

\* vmgenid_add: if (ret) devm_kfree(dev, state); return ret;
\* a failed probe also ends the device-managed mapping's scope
Add_Return ==
    /\ apc = "ret"
    /\ IF ret # "0"
       THEN /\ stateMem' = "freed"
            /\ mapping' = (IF mapping = "mapped" THEN "released" ELSE mapping)
            /\ apc' = "failed"
       ELSE /\ apc' = "bound"
            /\ UNCHANGED <<stateMem, mapping>>
    /\ UNCHANGED <<ret, err, obj, nMap, next_id, this_id, si, driver_data,
                   handler, nInstall, logs, hostVars, notifyVars, obsVars,
                   histVars>>
    /\ UNCHANGED addrVars
    /\ UNCHANGED snapVars

\* ---------------------------------------------------------------------
\* host: owner of the identifier region
\* ---------------------------------------------------------------------

\* positions of the probe at which setup's copy of the region is complete
PostCopy == {"seed", "install", "out", "ret", "bound"}

\* the host rewrites the region to a different value, at any instant
HostRewrite ==
    /\ nRewrites < MaxRewrites
    /\ \E v \in Ids \ {region} : region' = v
    /\ nRewrites' = nRewrites + 1
    /\ chgSinceSetup' = TRUE
    /\ hOverlap' = (hOverlap \/ npc # "idle")
    /\ torn' = (torn \/ (npc = "copy" /\ ni > 1))
    /\ needR' = (needR \/ apc \in PostCopy)
    /\ needU' = (needU \/ apc \in PostCopy)
    /\ quietRuns' = 0
    /\ UNCHANGED <<probeVars, this_id, notifyVars, obsVars, rCall, hDiff,
                   hVmfork, hUevent, owedR, owedU>>
    /\ UNCHANGED addrVars
    /\ UNCHANGED snapVars

\* ---------------------------------------------------------------------
\* vmgenid_notify, entered through vmgenid_acpi_handler
\* ---------------------------------------------------------------------

\* handlings completed without a rewrite since the last rewrite
QuietAfterReturn == IF hOverlap THEN 0 ELSE IF quietRuns >= 1 THEN 2 ELSE 1

\* struct vmgenid_state *state = device->driver_data;
\* memcpy(old_id, state->this_id, sizeof(old_id));
\* ACPI delivers the notifications of a device one at a time
Notify_Enter ==
    /\ handler
    /\ npc = "idle"
    /\ ~oops
    /\ nSignals < MaxSignals
    /\ nSignals' = nSignals + 1
    /\ lateCalls' = (IF apc = "removed" THEN lateCalls + 1 ELSE lateCalls)
    /\ IF driver_data = "null"
       THEN /\ oops' = TRUE
            /\ UNCHANGED <<npc, ni, old_id, hDiff, hOverlap, hVmfork, hUevent,
                           owedR, owedU, snapVars>>
       ELSE /\ old_id' = this_id
            /\ npc' = "copy"
            /\ ni' = 1
            /\ hDiff' = (region # this_id)
            /\ hOverlap' = FALSE
            /\ hVmfork' = 0
            /\ hUevent' = 0
            /\ owedR' = needR
            /\ owedU' = needU
            /\ hSnap' = ZeroId
            /\ hPrior' = this_id
            /\ hReads' = 0
            /\ UNCHANGED oops
    /\ UNCHANGED <<probeVars, this_id, hostVars, nDevRand, nVmfork, nUevent,
                   nChanged, lastOutcome, lastInject, rCall, chgSinceSetup,
                   torn, needR, needU, quietRuns>>
    /\ UNCHANGED addrVars

\* memcpy(state->this_id, state->next_id, sizeof(state->this_id)), one chunk
Notify_Copy ==
    /\ npc = "copy"
    /\ this_id' = MemcpyChunk(this_id, region, ni)
    /\ IF ni = Chunks
       THEN ni' = 1 /\ npc' = "cmp"
       ELSE ni' = ni + 1 /\ npc' = "copy"
    /\ hSnap' = [hSnap EXCEPT ![ni] = region[ni]]
    /\ hReads' = hReads + 1
    /\ UNCHANGED <<probeVars, hostVars, old_id, nSignals, obsVars, histVars,
                   hPrior>>
    /\ UNCHANGED addrVars

\* the second operand of the memcmp of vmgenid_notify
CompareArg_live == region
CompareArg == this_id

\* the call vmgenid_notify makes first when the memcmp finds a difference
AfterDiffer_uevent == "uevent"
AfterDiffer == "reseed"

\* if (!memcmp(old_id, state->this_id, sizeof(old_id))) return;
Notify_Compare ==
    /\ npc = "cmp"
    /\ IF IdsEqual(old_id, CompareArg)
       THEN /\ npc' = "idle"
            /\ old_id' = ZeroId
            /\ lastOutcome' = "Unchanged"
            /\ quietRuns' = QuietAfterReturn
       ELSE /\ npc' = AfterDiffer
            /\ UNCHANGED <<old_id, lastOutcome, quietRuns>>
    /\ UNCHANGED <<probeVars, this_id, hostVars, ni, nSignals, nDevRand,
                   nVmfork, nUevent, nChanged, lastInject, oops, lateCalls,
                   rCall, chgSinceSetup, hDiff, hOverlap, hVmfork, hUevent,
                   torn, needR, needU, owedR, owedU>>
    /\ UNCHANGED addrVars
    /\ UNCHANGED snapVars

\* the bytes vmgenid_notify hands to add_vmfork_randomness
VmforkArg_old == old_id
VmforkArg_live == region
VmforkArg == this_id

\* where vmgenid_notify goes after add_vmfork_randomness
AfterReseed_return == "idle"
AfterReseed == "uevent"

\* add_vmfork_randomness(state->this_id, sizeof(state->this_id));
Notify_Reseed ==
    /\ npc = "reseed"
    /\ nVmfork' = nVmfork + 1
    /\ hVmfork' = hVmfork + 1
    /\ lastInject' = [kind |-> "vmfork", id |-> VmforkArg]
    /\ needR' = FALSE
    /\ owedR' = FALSE
    /\ npc' = AfterReseed
    /\ UNCHANGED <<probeVars, this_id, hostVars, ni, old_id, nSignals,
                   nDevRand, nUevent, nChanged, lastOutcome, oops, lateCalls,
                   rCall, chgSinceSetup, hDiff, hOverlap, hUevent, torn,
                   needU, owedU, quietRuns>>
    /\ UNCHANGED addrVars
    /\ UNCHANGED snapVars

\* kobject_uevent_env(&device->kobj, KOBJ_CHANGE, envp);  NEW_VMGENID=1
Notify_Uevent ==
    /\ npc = "uevent"
    /\ nUevent' = nUevent + 1
    /\ hUevent' = hUevent + 1
    /\ needU' = FALSE
    /\ owedU' = FALSE
    /\ nChanged' = nChanged + 1
    /\ lastOutcome' = "Changed"
    /\ npc' = "idle"
    /\ old_id' = ZeroId
    /\ quietRuns' = QuietAfterReturn
    /\ UNCHANGED <<probeVars, this_id, hostVars, ni, nSignals, nDevRand,
                   nVmfork, lastInject, oops, lateCalls, rCall, chgSinceSetup,
                   hDiff, hOverlap, hVmfork, torn, needR, owedR>>
    /\ UNCHANGED addrVars
    /\ UNCHANGED snapVars

\* ---------------------------------------------------------------------
\* device removal: vmgenid_plaform_driver has a probe and no remove callback
\* ---------------------------------------------------------------------

\* unbinding releases what the probe took with devm_kmalloc and devm_memremap
\* and clears driver_data; nothing removes the installed notify handler
Remove ==
    /\ apc = "bound"
    /\ npc = "idle"
    /\ apc' = "removed"
    /\ stateMem' = "freed"
    /\ mapping' = "released"
    /\ driver_data' = "null"
    /\ UNCHANGED <<ret, err, obj, nMap, next_id, this_id, si, handler,
                   nInstall, logs, hostVars, notifyVars, obsVars, histVars>>
    /\ UNCHANGED addrVars
    /\ UNCHANGED snapVars

Next ==
    \/ Add_Alloc
    \/ Acpi_Evaluate
    \/ Acpi_CheckObj
    \/ Acpi_Memremap
    \/ Setup_Check
    \/ Setup_Copy
    \/ Setup_Seed
    \/ Acpi_Install
    \/ Acpi_Out
    \/ Add_Return
    \/ HostRewrite
    \/ Notify_Enter
    \/ Notify_Copy
    \/ Notify_Compare
    \/ Notify_Reseed
    \/ Notify_Uevent
    \/ Remove

Spec == Init /\ [][Next]_vars

\* ---------------------------------------------------------------------
\* the address arithmetic of vmgenid_add_acpi, over all pairs of integers
\* ---------------------------------------------------------------------

RECURSIVE BitOr(_, _)
BitOr(a, b) ==
    IF a = 0 THEN b
    ELSE IF b = 0 THEN a
    ELSE (IF a % 2 = 1 \/ b % 2 = 1 THEN 1 ELSE 0)
         + 2 * BitOr(a \div 2, b \div 2)

RECURSIVE BitAnd(_, _)
BitAnd(a, b) ==
    IF a = 0 \/ b = 0 THEN 0
    ELSE (IF a % 2 = 1 /\ b % 2 = 1 THEN 1 ELSE 0)
         + 2 * BitAnd(a \div 2, b \div 2)

\* a | b on 64-bit integers
Or64(a, b) == [hi |-> BitOr(a.hi, b.hi), lo |-> BitOr(a.lo, b.lo)]
\* w << 0
Shl0(w) == w
\* w << 32 on a 64-bit integer: the low half moves up, the high half is lost
Shl32(w) == [hi |-> w.lo, lo |-> 0]

\* phys_addr = (elements[0].integer.value << 0) |
\*             (elements[1].integer.value << 32);
PhysAddr(l, h) == Or64(Shl0(l), Shl32(h))

InitAddr ==
    /\ ProbeInit
    /\ aL \in Words /\ aH \in Words
    /\ aPhys = ZeroWord /\ aDone = FALSE

ComputePhysAddr ==
    /\ ~aDone
    /\ aPhys' = PhysAddr(aL, aH)
    /\ aDone' = TRUE
    /\ UNCHANGED <<aL, aH, probeVars, this_id, hostVars, notifyVars, obsVars,
                   histVars, snapVars>>

NextAddr == ComputePhysAddr

SpecAddr == InitAddr /\ [][NextAddr]_vars

TypeOK ==
    /\ apc \in {"start", "eval", "check", "remap", "setup", "copy", "seed",
                "install", "out", "ret", "bound", "failed", "removed"}
    /\ ret \in Errnos
    /\ err \in {"none", "ENOMEM", "Resolution", "Malformed", "Mapping",
                "Registration"}
    /\ obj \in AcpiObjs
    /\ stateMem \in {"none", "live", "freed"}
    /\ mapping \in {"none", "mapped", "ERR", "released"}
    /\ next_id \in {"unset", "region", "ERR"}
    /\ this_id \in Ids /\ old_id \in Ids /\ region \in Ids /\ rCall \in Ids
    /\ si \in 1..Chunks /\ ni \in 1..Chunks
    /\ driver_data \in {"null", "state"}
    /\ handler \in BOOLEAN
    /\ npc \in {"idle", "copy", "cmp", "reseed", "uevent"}
    /\ nRewrites \in 0..MaxRewrites /\ nSignals \in 0..MaxSignals
    /\ lastOutcome \in {"none", "Unchanged", "Changed"}
    /\ lastInject.kind \in {"none", "device", "vmfork"}
    /\ quietRuns \in 0..2
    /\ hSnap \in Ids /\ hPrior \in Ids /\ hReads \in 0..Chunks

\* =====================================================================
\* Properties
\* =====================================================================

\* the monitor is initialised and its state has not been released
Attached == stateMem = "live" /\ (apc = "install" \/ driver_data = "state")

\* no entropy injection of either kind, no notification, no subscription
NoEffects ==
    /\ nDevRand = 0 /\ nVmfork = 0 /\ nUevent = 0
    /\ lastInject.kind = "none"
    /\ ~handler /\ nInstall = 0

\* C1: when the host has rewritten the region to a value different from
\* last_observed and then one signal is handled with no further rewrite, that
\* handling returns Changed, leaves this_id equal to the new value, calls
\* add_vmfork_randomness exactly once with the new bytes and emits exactly
\* one uevent.
C1_SingleChange ==
    (npc = "idle" /\ quietRuns >= 1 /\ hDiff) =>
        /\ lastOutcome = "Changed"
        /\ this_id = region
        /\ hVmfork = 1
        /\ hUevent = 1
        /\ lastInject = [kind |-> "vmfork", id |-> region]

C1_Witness ==
    /\ npc = "idle" /\ quietRuns = 1 /\ hDiff /\ nRewrites >= 1
    /\ lastOutcome = "Changed" /\ this_id = region /\ nVmfork = 1

\* C2: as long as the region has not been rewritten since initialization,
\* however many signals are handled, no handling returns Changed, no forced
\* reseed and no uevent happens, and this_id keeps its initial value.
C2_NoChangeNoEffect ==
    (handler /\ ~chgSinceSetup) =>
        /\ nChanged = 0 /\ lastOutcome # "Changed"
        /\ nVmfork = 0 /\ nUevent = 0
        /\ lastInject.kind # "vmfork"
        /\ npc \notin {"reseed", "uevent"}
        /\ this_id = rCall

C2_Witness ==
    /\ handler /\ ~chgSinceSetup /\ nSignals >= 2 /\ npc = "idle"
    /\ lastOutcome = "Unchanged"

\* setup_vmgenid_state fails exactly when the mapping is an error pointer
C3_FailsOnlyUnmapped ==
    /\ (err = "Mapping" => mapping = "ERR")
    /\ (apc \in {"copy", "seed", "install"} => mapping = "mapped")

\* C3 as stated: a successful setup_vmgenid_state leaves this_id equal to the
\* region's value at call time, injects exactly those bytes once with
\* add_device_randomness, does no forced reseed, emits no uevent, and fails
\* only when the region could not be mapped.
C3_Original ==
    /\ (apc = "install" =>
            /\ this_id = rCall
            /\ lastInject = [kind |-> "device", id |-> rCall]
            /\ nDevRand = 1 /\ nVmfork = 0 /\ nUevent = 0)
    /\ nDevRand <= 1
    /\ C3_FailsOnlyUnmapped

\* C3 as amended: a successful setup_vmgenid_state injects exactly the bytes
\* it left in this_id, once, as device randomness, with no forced reseed and
\* no uevent; this_id equals the region's value at call time whenever the
\* host did not rewrite the region while the call copied it; it fails only
\* when the region could not be mapped.
C3_Amended ==
    /\ (apc = "install" =>
            /\ lastInject = [kind |-> "device", id |-> this_id]
            /\ nDevRand = 1 /\ nVmfork = 0 /\ nUevent = 0
            /\ (~chgSinceSetup => this_id = rCall))
    /\ nDevRand <= 1
    /\ C3_FailsOnlyUnmapped

C3_Witness ==
    /\ apc = "install" /\ ~chgSinceSetup /\ nRewrites >= 1
    /\ this_id = rCall /\ lastInject = [kind |-> "device", id |-> rCall]

\* C4: whenever the monitor is attached and no handling is in progress,
\* this_id equals the bytes of the most recent entropy injection (the device
\* seed of setup or the latest forced reseed).
C4_LastObservedIsLastInjected ==
    (Attached /\ npc = "idle") =>
        /\ lastInject.kind \in {"device", "vmfork"}
        /\ this_id = lastInject.id

C4_Witness ==
    /\ Attached /\ npc = "idle" /\ nChanged >= 2
    /\ lastInject.kind = "vmfork" /\ this_id = lastInject.id

\* C5 as stated: every rewrite made after initialization that is followed by
\* a delivered signal has been answered by a forced reseed and a uevent by
\* the time the handling of the first such signal returns.
C5_Original == (npc = "idle") => (~owedR /\ ~owedU)

\* C5 as amended: a rewrite followed by a delivered signal is answered by a
\* forced reseed and a uevent in that signal's handling whenever the region
\* differs from this_id when the handling begins and the host does not
\* rewrite the region during it.
C5_Amended ==
    (npc = "idle" /\ hDiff /\ ~hOverlap) => (~owedR /\ ~owedU)

C5_Witness ==
    /\ npc = "idle" /\ hDiff /\ ~hOverlap /\ nRewrites >= 2
    /\ ~owedR /\ ~owedU /\ ~needR /\ ~needU /\ nUevent >= 1

\* the counts of C6: uevents, forced reseeds and Changed outcomes agree when
\* no handling is in progress, and uevents never outnumber the rewrites
C6_Counts ==
    /\ (npc = "idle" => (nUevent = nVmfork /\ nUevent = nChanged))
    /\ nUevent <= nVmfork
    /\ nUevent <= nRewrites

\* C6 as stated: for any interleaving of host rewrites and serialized
\* signals the counts agree and uevents never outnumber the rewrites.
C6_Original == C6_Counts

\* C6 as amended: the same, provided no rewrite lands between two chunk
\* reads of a handler's snapshot of the region.
C6_Amended == ~torn => C6_Counts

C6_Witness ==
    /\ ~torn /\ npc = "idle" /\ nUevent = 2 /\ nRewrites = 2 /\ nSignals >= 3

\* C7: after a rewrite to a value different from this_id, the first handling
\* that runs with no rewrite returns Changed, every further handling with no
\* rewrite in between returns Unchanged with no reseed and no uevent, and no
\* step taken after the first such handling changes this_id, the injected
\* bytes or any side-effect count until the host rewrites the region again.
C7_FirstChanged ==
    (npc = "idle" /\ quietRuns = 1 /\ hDiff) => lastOutcome = "Changed"

C7_LaterUnchanged ==
    (npc = "idle" /\ quietRuns = 2) =>
        /\ lastOutcome = "Unchanged"
        /\ hVmfork = 0 /\ hUevent = 0
        /\ this_id = region

C7_NoEffectStep ==
    (quietRuns >= 1 /\ quietRuns' >= 1) =>
        /\ this_id' = this_id
        /\ nVmfork' = nVmfork /\ nUevent' = nUevent /\ nChanged' = nChanged
        /\ nDevRand' = nDevRand /\ lastInject' = lastInject

C7_Idempotent ==
    /\ [](C7_FirstChanged /\ C7_LaterUnchanged)
    /\ [][C7_NoEffectStep]_vars

C7_Witness ==
    /\ npc = "idle" /\ quietRuns = 2 /\ nChanged >= 1 /\ nRewrites >= 1
    /\ lastOutcome = "Unchanged" /\ lastInject.kind = "vmfork"

\* C8: a failure of the ADDR evaluation or of the descriptor test returns an
\* error with no mapping attempted; a failed mapping returns an error; in all
\* three cases there is no entropy injection of either kind, no uevent and no
\* notify handler installed.
C8_ResolverFailure ==
    /\ (err \in {"Resolution", "Malformed"} =>
            (ret # "0" /\ nMap = 0 /\ mapping = "none" /\ NoEffects))
    /\ ((mapping = "ERR" /\ apc # "setup") =>
            (err = "Mapping" /\ ret # "0" /\ NoEffects))

C8_Witness ==
    /\ apc = "failed" /\ err = "Mapping" /\ mapping = "ERR" /\ nMap = 1
    /\ ret = "-ENXIO" /\ NoEffects

AttachErrors == {"Resolution", "Malformed", "Mapping", "Registration"}

\* C9: each of the four attachment errors ends in vmgenid_add returning a
\* non-zero error with the state freed, driver_data not referencing it, no
\* notify handler installed, and no signal ever reaching vmgenid_notify.
C9_FailureDiscards ==
    /\ (err \in AttachErrors =>
            (ret # "0" /\ apc \in {"out", "ret", "failed"} /\ ~handler
             /\ driver_data = "null" /\ nSignals = 0 /\ npc = "idle"))
    /\ ((apc = "failed" /\ err \in AttachErrors) => stateMem = "freed")

C9_Witness ==
    /\ apc = "failed" /\ err = "Registration" /\ stateMem = "freed"
    /\ driver_data = "null" /\ ~handler /\ nInstall = 1 /\ nRewrites >= 1

\* C10: once the device has been removed, no delivered signal invokes
\* vmgenid_notify, so the handler never dereferences the released state.
C10_NoNotifyAfterRemoval ==
    (apc = "removed") => (lateCalls = 0 /\ ~oops)

\* the address the claim C11 names: (L & 0xFFFFFFFF) | (H << 32)
LowMask == [hi |-> 0, lo |-> HalfMod - 1]
And64(a, b) == [hi |-> BitAnd(a.hi, b.hi), lo |-> BitAnd(a.lo, b.lo)]
MaskedAddr(l, h) == Or64(And64(l, LowMask), Shl32(h))

\* C11: for every pair of 64-bit integers L (element 0) and H (element 1)
\* the address that is mapped equals (L & 0xFFFFFFFF) | (H << 32) modulo
\* 2^64: bits 0-31 come from the low half of L, bits 32-63 only from H.
C11_PhysAddrMasked == aDone => aPhys = MaskedAddr(aL, aH)

\* what the code computes: the high half of L is or-ed into bits 32-63
C11_CodeAddr ==
    aDone => aPhys = [hi |-> BitOr(aL.hi, aH.lo), lo |-> aL.lo]

\* C12 as stated: an attachment failure leaves a diagnostic log entry if and
\* only if the failing step is the installation of the notify handler.
C12_Original ==
    (apc = "failed") => ((logs # {}) <=> (err = "Registration"))

\* C12 as amended: an attachment failure leaves a diagnostic log entry if and
\* only if the failing step is the installation of the notify handler
\* (dev_err) or the evaluation of ADDR (ACPI_EXCEPTION); a failed descriptor
\* test, a failed mapping and a failed allocation log nothing.
C12_Amended ==
    (apc = "failed") =>
        /\ (err = "Registration" => logs = {"dev_err"})
        /\ (err = "Resolution" => logs = {"ACPI_EXCEPTION"})
        /\ (err \in {"Malformed", "Mapping", "ENOMEM"} => logs = {})

C12_Witness ==
    /\ apc = "failed" /\ err = "Registration" /\ logs = {"dev_err"}
    /\ nInstall = 1

\* C13: a handling loads each piece of the region exactly once; the bytes
\* it compares with the prior this_id, the bytes it leaves in this_id and the
\* bytes it hands to add_vmfork_randomness are that one snapshot, whatever
\* the host rewrites meanwhile, and it ends Changed exactly when the snapshot
\* differs from the prior this_id.
C13_OneSnapshot ==
    /\ (npc \in {"cmp", "reseed", "uevent"} =>
            (hReads = Chunks /\ this_id = hSnap /\ old_id = hPrior))
    /\ (npc \in {"reseed", "uevent"} => hSnap # hPrior)
    /\ (npc = "uevent" => lastInject = [kind |-> "vmfork", id |-> hSnap])
    /\ ((npc = "idle" /\ lastOutcome # "none") =>
            /\ hReads = Chunks
            /\ this_id = hSnap
            /\ (lastOutcome = "Changed" <=> hSnap # hPrior)
            /\ (lastOutcome = "Changed" =>
                    lastInject = [kind |-> "vmfork", id |-> hSnap]))

C13_Witness ==
    /\ npc = "idle" /\ lastOutcome = "Changed" /\ hOverlap /\ torn
    /\ this_id = hSnap /\ this_id # region /\ hSnap # hPrior

\* a step of a handling of vmgenid_notify
HandlingStep == npc # "idle" \/ npc' # "idle"

\* C14: the monitor never writes the region and never changes next_id once
\* setup_vmgenid_state has set it; a step of a handling changes no monitor
\* state other than this_id, the region changes only by a host rewrite, and
\* a handling that returns Unchanged leaves this_id's value as it was.
C14_FrameStep ==
    /\ (region' # region => nRewrites' = nRewrites + 1)
    /\ (next_id # "unset" => next_id' = next_id)
    /\ (HandlingStep =>
            /\ next_id' = next_id /\ mapping' = mapping
            /\ driver_data' = driver_data /\ stateMem' = stateMem
            /\ handler' = handler)
    /\ ((nRewrites' = nRewrites) => region' = region)
    /\ ((npc = "cmp" /\ npc' = "idle") =>
            (this_id' = hPrior /\ lastOutcome' = "Unchanged"))

C14_Frame ==
    /\ [][C14_FrameStep]_vars
    /\ []((npc = "idle" /\ lastOutcome = "Unchanged") => this_id = hPrior)

C14_Witness ==
    /\ npc = "idle" /\ lastOutcome = "Unchanged" /\ nChanged >= 1
    /\ nRewrites >= 1 /\ this_id = hPrior /\ next_id = "region"

\* C15: whatever rewrites and torn snapshots came before, once a handling
\* has run entirely after the host's last rewrite, this_id and the last
\* injected bytes equal the region's contents, and every further handling
\* returns Unchanged with no reseed and no uevent until the next rewrite.
C15_Converges ==
    (Attached /\ npc = "idle" /\ quietRuns >= 1) =>
        /\ this_id = region
        /\ lastInject.id = region
        /\ (quietRuns = 2 =>
                (lastOutcome = "Unchanged" /\ hVmfork = 0 /\ hUevent = 0
                 /\ hSnap = hPrior))

C15_Witness ==
    /\ Attached /\ npc = "idle" /\ quietRuns = 2 /\ torn /\ nChanged = 2
    /\ this_id = region /\ lastOutcome = "Unchanged"

\* C16: in a handling that detects a change, add_vmfork_randomness has
\* returned before the uevent is emitted and this_id already holds the new
\* value at both calls; every uevent is preceded, in its own handling, by a
\* forced reseed carrying the value this_id holds when the uevent is emitted.
C16_AtCalls ==
    /\ (npc = "reseed" =>
            (this_id = hSnap /\ this_id # hPrior /\ hVmfork = 0 /\ hUevent = 0))
    /\ (npc = "uevent" =>
            (this_id = hSnap /\ this_id # hPrior /\ hVmfork = 1 /\ hUevent = 0
             /\ lastInject = [kind |-> "vmfork", id |-> this_id]))
    /\ nUevent <= nVmfork

C16_UeventStep ==
    (nUevent' # nUevent) =>
        /\ nUevent' = nUevent + 1
        /\ hVmfork = 1 /\ nVmfork' = nVmfork
        /\ lastInject = [kind |-> "vmfork", id |-> this_id]
        /\ lastInject' = lastInject /\ this_id' = this_id

C16_ReseedBeforeUevent == []C16_AtCalls /\ [][C16_UeventStep]_vars

C16_Witness ==
    /\ npc = "idle" /\ lastOutcome = "Changed" /\ hVmfork = 1 /\ hUevent = 1
    /\ nUevent = 2 /\ nVmfork = 2
    /\ lastInject = [kind |-> "vmfork", id |-> this_id]

\* what a delivered signal finds behind dev->driver_data
StateReady ==
    /\ driver_data = "state" /\ stateMem = "live"
    /\ next_id = "region" /\ mapping = "mapped"
    /\ nDevRand = 1 /\ lastInject.kind # "none"

\* C17: in every state in which a signal can be delivered to vmgenid_notify
\* (the notify handler is installed), driver_data references a live state
\* whose next_id is a valid mapping and whose this_id has been initialised
\* and boot-seeded; no delivered signal finds a null or uninitialised state.
C17_HandlerSeesReadyState == (handler => StateReady) /\ ~oops

\* the same, up to the removal of the device
C17_UntilRemoval == (apc # "removed") => ((handler => StateReady) /\ ~oops)

====
